---- MODULE Spec2Model ----
(***************************************************************************)
(* The dynamic fuzzy filter of maple_cli (cmd/filter/dynamic.rs): the      *)
(* bounded top-K selector, the two streaming collectors dyn_collect_all    *)
(* and dyn_collect_number, the throttled progress notification and the     *)
(* final ranking step of dyn_fuzzy_filter_and_rank.                        *)
(*                                                                         *)
(* A matched candidate (text, score, indices) is the pair <<text, score>>; *)
(* the text is the candidate's arrival number among the accepted lines, so *)
(* that every candidate is distinguishable, and the matched indices, which *)
(* no decision of the code reads, are left out.                            *)
(***************************************************************************)
EXTENDS Integers, Sequences, FiniteSets, TLC

VARIABLES
    mode,         \* "all" | "number": number is None | Some(number)
    number,       \* the requested number (0 when mode = "all")
    pc,           \* "fill" | "steady" | "returned" | "done" | "aborted"
    seen,         \* history: scores of the accepted candidates, in arrival order
    buffer,       \* Vec<FuzzyMatchedLineInfo>
    top_scores,   \* [i64; ITEMS_TO_SHOW]
    top_results,  \* [usize; ITEMS_TO_SHOW], indices into buffer (0-based)
    total,        \* accepted candidates processed
    clock,        \* the last value Instant::now() returned
    past,         \* the time of the last notification
    snapshots,    \* history: the progress messages printed
    reads,        \* history: calls of Instant::now() made by try_notify_top_results
    peak,         \* history: buffer.len() right after the last push
    dropped,      \* history: what the compaction of the last step truncated away
    ncompact,     \* history: compactions so far
    last,         \* history: what the last step did to the top queues
    output,       \* the lines of the final message(s), best first
    filtered,     \* history: lines the filter_map of the source left out
    source,       \* the kind of Source the candidates come from
    probe         \* a call of find_best_score_idx on its own: arguments and result

\* The state of the light command layer (light_command.rs), declared further down.
VARIABLES
    cache_dir_exists,  \* whether get_cache_dir(args, cmd_dir) exists
    cache_entries,     \* the files in it: [name, content, by], by the invocation
                       \* that created the file, 0 for a file found at the start
    output_file,       \* the file at the path of the output option: <<>> or <<content>>
    config,            \* the options the LightCommands are built with
    lpc,               \* where each invocation is
    ltotal,            \* self.total of each invocation
    lcmd,              \* what the command of each invocation returned, <<>> before
    ltempfile,         \* the path tempfile() gave each invocation, <<>> before
    messages,          \* what println_json! wrote, in order
    started,           \* history: the invocations in the order they began
    overlapped         \* history: an invocation began while another was under way

lightVars == <<cache_dir_exists, cache_entries, output_file, config, lpc, ltotal,
               lcmd, ltempfile, messages, started, overlapped>>

filterVars == <<mode, number, pc, seen, buffer, top_scores, top_results, total, clock,
                past, snapshots, reads, peak, dropped, ncompact, last, output, filtered,
                source>>

vars == <<filterVars, probe, lightVars>>

----------------------------------------------------------------------------
(* Bounds of the model. *)

\* The length of the top queues. The program sets 30; the model scales it down
\* so that fill, steady state and several compactions fit in a short stream.
ITEMS_TO_SHOW == 2

\* The longest stream of accepted candidates fed to dyn_collect_all.
MaxStreamAll == 5

\* The longest stream of accepted candidates fed to dyn_collect_number.
MaxStreamNumber == 6

\* The longest stream of the notification specification: long enough for two
\* progress messages and a candidate after the second.
MaxStreamNotify == 33

\* In the notification specification, the candidates after this many are each
\* the best so far; before, each is the best or the worst so far.
VariedPrefix == 6

\* The most lines the source filters out in the notification specification.
MaxFiltered == 1

\* The scores the scorer hands out.
Scores == {1, 2, 3}

\* The time between two readings of the clock in the main specification, in ms.
MainDelays == {300}

\* The scores of the notification specification for the n-th accepted
\* candidate: no two candidates score the same, so that the sorts of a long
\* stream have one outcome each.
NotifyScores(n) == IF n <= VariedPrefix THEN {n, -n} ELSE {n}

\* The numbers a caller asks for: none of the lines, fewer than the top
\* queue holds, more than it holds.
Numbers == {0, ITEMS_TO_SHOW - 1, ITEMS_TO_SHOW + 1}

\* Time passed between two consecutive readings of the clock, in ms.
NotifyDelays == {150, 300, 301}

\* The number asked for in the notification specification.
NotifyNumbers == {ITEMS_TO_SHOW - 1}

----------------------------------------------------------------------------
(* Program constants. *)

MAX_IDX == ITEMS_TO_SHOW - 1

UPDATE_INTERVAL == 300

\* total % 16 in try_notify_top_results
NOTIFY_EVERY == 16

\* i64::min_value(); the least integer the model checker represents stands for it.
I64_MIN == -2147483647

\* Option<usize>::None
None == -1

----------------------------------------------------------------------------
(* Helpers. *)

Max(S) == CHOOSE x \in S : \A y \in S : y <= x

Min2(a, b) == IF a <= b THEN a ELSE b

Max2(a, b) == IF a >= b THEN a ELSE b

Range(s) == {s[i] : i \in 1..Len(s)}

Take(s, n) == SubSeq(s, 1, Min2(n, Len(s)))

ScoreOf(item) == item[2]

ScoresOf(s) == [i \in 1..Len(s) |-> ScoreOf(s[i])]

\* Vec::with_capacity(2 * std::cmp::max(ITEMS_TO_SHOW, number))
Capacity == 2 * Max2(ITEMS_TO_SHOW, number)

\* Insert<T>::pop_and_insert
pop_and_insert(arr, idx, value) ==
    IF idx < MAX_IDX
    THEN [i \in 0..MAX_IDX |->
            IF i < idx THEN arr[i] ELSE IF i = idx THEN value ELSE arr[i - 1]]
    ELSE [arr EXCEPT ![MAX_IDX] = value]

\* Mutant: the comparison of find_best_score_idx turned around.
find_best_score_idx_less(scores, score) ==
    LET less == {i \in 0..MAX_IDX : scores[i] < score}
    IN  IF less = {} THEN None ELSE Max(less)

\* Mutant: find_best_score_idx scanning from the best end (no .rev()).
find_best_score_idx_front(scores, score) ==
    LET greater == {i \in 0..MAX_IDX : scores[i] > score}
    IN  IF greater = {} THEN None ELSE CHOOSE i \in greater : \A j \in greater : i <= j

\* Mutant: find_best_score_idx taking an equal score for a greater one.
find_best_score_idx_geq(scores, score) ==
    LET greater == {i \in 0..MAX_IDX : scores[i] >= score}
    IN  IF greater = {} THEN None ELSE Max(greater)

\* find_best_score_idx: the last index whose score is strictly greater.
find_best_score_idx(scores, score) ==
    LET greater == {i \in 0..MAX_IDX : scores[i] > score}
    IN  IF greater = {} THEN None ELSE Max(greater)

\* Mutant: the comparator's operands swapped, an ascending sort.
RECURSIVE AscendingArrangements(_)
AscendingArrangements(S) ==
    IF S = {} THEN {<<>>}
    ELSE LET worst == {x \in S : \A y \in S : ScoreOf(x) <= ScoreOf(y)}
         IN  UNION {{<<x>> \o rest : rest \in AscendingArrangements(S \ {x})} : x \in worst}

par_sort_ascending(buf) == AscendingArrangements(Range(buf))

\* par_sort_unstable_by(|(_, v1, _), (_, v2, _)| v2.partial_cmp(&v1).unwrap()):
\* every arrangement of the items in descending score order; an unstable sort
\* promises nothing about the order of items with equal scores.
RECURSIVE SortedArrangements(_)
SortedArrangements(S) ==
    IF S = {} THEN {<<>>}
    ELSE LET best == {x \in S : \A y \in S : ScoreOf(y) <= ScoreOf(x)}
         IN  UNION {{<<x>> \o rest : rest \in SortedArrangements(S \ {x})} : x \in best}

par_sort_unstable_by(buf) == SortedArrangements(Range(buf))

----------------------------------------------------------------------------
(* The state after dyn_fuzzy_filter_and_rank has chosen the collector. *)

\* No invocation of the light command layer, and nothing of it on disk.
LightIdle ==
    /\ cache_dir_exists = FALSE
    /\ cache_entries = {}
    /\ output_file = <<>>
    /\ config = [number |-> <<>>, output_threshold |-> 0, output |-> FALSE]
    /\ lpc = <<>>
    /\ ltotal = <<>>
    /\ lcmd = <<>>
    /\ ltempfile = <<>>
    /\ messages = <<>>
    /\ started = <<>>
    /\ overlapped = FALSE

\* No call of find_best_score_idx on its own.
ProbeIdle == probe = [scores |-> <<>>, score |-> 0, result |-> None, called |-> FALSE]

\* The variants of Source: standard input, the output of a subprocess, a file
\* and a list in memory.
SourceKinds == {"Stdin", "Exec", "File", "List"}

FilterInitFrom(numbers, sources) ==
    /\ source \in sources
    /\ \/ mode = "all" /\ number = 0
       \/ mode = "number" /\ number \in numbers
    /\ pc = "fill"
    /\ seen = <<>>
    /\ buffer = <<>>
    /\ top_scores = [i \in 0..MAX_IDX |-> I64_MIN]
    /\ top_results = [i \in 0..MAX_IDX |-> 0]
    /\ total = 0
    /\ clock = 0
    /\ past = 0
    /\ snapshots = <<>>
    /\ reads = 0
    /\ peak = 0
    /\ dropped = {}
    /\ ncompact = 0
    /\ last = "none"
    /\ output = <<>>
    /\ filtered = 0

\* The collectors see the same stream of accepted candidates whatever the
\* source: the specifications about them read standard input.
FilterInit(numbers) == FilterInitFrom(numbers, {"Stdin"})

InitWith(numbers) == FilterInit(numbers) /\ ProbeIdle /\ LightIdle

Init == InitWith(Numbers)

\* The stream has not reached the longest the model feeds to this collector.
MoreToCome(maxAll, maxNumber) ==
    Len(seen) < (IF mode = "all" THEN maxAll ELSE maxNumber)

\* Mutant: insert_both! storing buffer.len() where it stores buffer.len() - 1.
insert_both_len(idx, item, buf, results, scores) ==
    LET pushed == Append(buf, item)
    IN  [buffer      |-> pushed,
         top_results |-> pop_and_insert(results, idx, Len(pushed)),
         top_scores  |-> pop_and_insert(scores, idx, ScoreOf(item)),
         last        |-> "insert"]

\* insert_both!(idx, ...): push into the buffer and insert into both top queues.
insert_both(idx, item, buf, results, scores) ==
    LET pushed == Append(buf, item)
    IN  [buffer      |-> pushed,
         top_results |-> pop_and_insert(results, idx, Len(pushed) - 1),
         top_scores  |-> pop_and_insert(scores, idx, ScoreOf(item)),
         last        |-> "insert"]

\* The closure of select_top_items_to_show, for one accepted candidate.
SelectTopItemsStep(score, delay, maxAll, maxNumber) ==
    /\ pc = "fill"
    /\ MoreToCome(maxAll, maxNumber)
    /\ LET found == find_best_score_idx(top_scores, score)
           idx   == IF found = None THEN 0 ELSE found + 1
           ins   == insert_both(idx, <<Len(seen) + 1, score>>,
                                buffer, top_results, top_scores)
       IN  /\ buffer' = ins.buffer
           /\ top_results' = ins.top_results
           /\ top_scores' = ins.top_scores
           /\ peak' = Len(ins.buffer)
    /\ seen' = Append(seen, score)
    /\ total' = total + 1
    /\ last' = "fill"
    /\ dropped' = {}
    \* let mut past = std::time::Instant::now(), once the queues are full
    /\ IF total + 1 = ITEMS_TO_SHOW
       THEN pc' = "steady" /\ clock' = clock + delay /\ past' = clock + delay
       ELSE UNCHANGED <<pc, clock, past>>
    /\ UNCHANGED <<mode, number, snapshots, reads, ncompact, output>>
    /\ UNCHANGED <<filtered, source, probe, lightVars>>

\* Mutant: insert_both!(pop; ...) keeping a candidate out of the queues on None.
insert_both_pop_none_discards(index, item, buf, results, scores) ==
    IF index = None
    THEN [buffer      |-> Append(buf, item),
          top_results |-> results,
          top_scores  |-> scores,
          last        |-> "discard"]
    ELSE IF index # MAX_IDX
    THEN insert_both(index + 1, item, buf, results, scores)
    ELSE insert_both(MAX_IDX, item, buf, results, scores)

\* Mutant: the Some(MAX_IDX) arm of insert_both!(pop; ...) doing nothing at all.
insert_both_pop_nopush(index, item, buf, results, scores) ==
    IF index = MAX_IDX
    THEN [buffer      |-> buf,
          top_results |-> results,
          top_scores  |-> scores,
          last        |-> "discard"]
    ELSE IF index # None
    THEN insert_both(index + 1, item, buf, results, scores)
    ELSE insert_both(0, item, buf, results, scores)

\* insert_both!(pop; index, ...): the steady-state insertion.
insert_both_pop(index, item, buf, results, scores) ==
    IF index = MAX_IDX
    THEN [buffer      |-> Append(buf, item),
          top_results |-> results,
          top_scores  |-> scores,
          last        |-> "discard"]
    ELSE IF index # None
    THEN insert_both(index + 1, item, buf, results, scores)
    ELSE insert_both(0, item, buf, results, scores)

\* Mutant: try_notify_top_results without its sampling gate.
SampleGateAlways(t) == TRUE

\* try_notify_top_results: total % 16 == 0
SampleGate(t) == t % NOTIFY_EVERY = 0

\* Mutant: the time gate without the interval.
TimeGateNoInterval(now, before) == now > before

\* try_notify_top_results: now > *past + UPDATE_INTERVAL
TimeGate(now, before) == now > before + UPDATE_INTERVAL

\* Mutant: a message that leaves out the last slot of top_results.
SnapshotLinesShort(results, buf) == [i \in 1..(ITEMS_TO_SHOW - 1) |-> buf[results[i - 1] + 1]]

\* try_notify_top_results: the lines of the message, one per slot of top_results.
SnapshotLines(results, buf) == [i \in 1..ITEMS_TO_SHOW |-> buf[results[i - 1] + 1]]

\* try_notify_top_results, and past = now in its caller when it returned Ok.
TryNotify(t, results, buf, delay) ==
    LET now  == clock + delay
        emit == SampleGate(t) /\ TimeGate(now, past)
    IN  /\ clock' = IF SampleGate(t) THEN now ELSE clock
        /\ reads' = IF SampleGate(t) THEN reads + 1 ELSE reads
        /\ snapshots' = IF emit
                        THEN Append(snapshots, [total |-> t,
                                                lines |-> SnapshotLines(results, buf),
                                                at    |-> now])
                        ELSE snapshots
        /\ past' = IF emit THEN now ELSE past

\* The closure of dyn_collect_all's for_each, for one accepted candidate.
DynCollectAllStep(score, delay, maxAll, maxNumber) ==
    /\ pc = "steady"
    /\ mode = "all"
    /\ MoreToCome(maxAll, maxNumber)
    /\ LET idx == find_best_score_idx(top_scores, score)
           ins == insert_both_pop(idx, <<Len(seen) + 1, score>>,
                                  buffer, top_results, top_scores)
       IN  /\ buffer' = ins.buffer
           /\ top_results' = ins.top_results
           /\ top_scores' = ins.top_scores
           /\ last' = ins.last
           /\ peak' = Len(ins.buffer)
           /\ TryNotify(total + 1, ins.top_results, ins.buffer, delay)
    /\ seen' = Append(seen, score)
    /\ total' = total + 1
    /\ dropped' = {}
    /\ UNCHANGED <<mode, number, pc, ncompact, output>>
    /\ UNCHANGED <<filtered, source, probe, lightVars>>

\* Mutant: the buffer compacted one push too late.
BufferOverfull(buf) == Len(buf) = Capacity + 1

\* dyn_collect_number: if buffer.len() == buffer.capacity()
BufferFull(buf) == Len(buf) = Capacity

\* Mutant: the compaction keeping the second half of the sorted buffer.
TruncatedTail(sorted) == SubSeq(sorted, Len(sorted) \div 2 + 1, Len(sorted))

\* dyn_collect_number: let half = buffer.len() / 2; buffer.truncate(half)
Truncated(sorted) == SubSeq(sorted, 1, Len(sorted) \div 2)

\* Mutant: the resynchronisation reading the sorted buffer one place too far.
ResyncScoresShifted(sorted) == [i \in 0..MAX_IDX |-> ScoreOf(sorted[i + 2])]

\* dyn_collect_number: top_scores[idx] = *score for the first ITEMS_TO_SHOW of the
\* sorted buffer.
ResyncScores(sorted) == [i \in 0..MAX_IDX |-> ScoreOf(sorted[i + 1])]

\* dyn_collect_number: top_results[idx] = idx
ResyncResults(sorted) == [i \in 0..MAX_IDX |-> i]

\* The closure of dyn_collect_number's for_each, for one accepted candidate.
DynCollectNumberStep(score, delay, maxAll, maxNumber) ==
    /\ pc = "steady"
    /\ mode = "number"
    /\ MoreToCome(maxAll, maxNumber)
    /\ LET idx == find_best_score_idx(top_scores, score)
           ins == insert_both_pop(idx, <<Len(seen) + 1, score>>,
                                  buffer, top_results, top_scores)
       IN  /\ last' = ins.last
           /\ peak' = Len(ins.buffer)
           /\ TryNotify(total + 1, ins.top_results, ins.buffer, delay)
           /\ IF BufferFull(ins.buffer)
              THEN \E sorted \in par_sort_unstable_by(ins.buffer) :
                      /\ top_scores' = ResyncScores(sorted)
                      /\ top_results' = ResyncResults(sorted)
                      /\ buffer' = Truncated(sorted)
                      /\ dropped' = Range(sorted) \ Range(Truncated(sorted))
                      /\ ncompact' = ncompact + 1
              ELSE /\ buffer' = ins.buffer
                   /\ top_results' = ins.top_results
                   /\ top_scores' = ins.top_scores
                   /\ dropped' = {}
                   /\ UNCHANGED ncompact
    /\ seen' = Append(seen, score)
    /\ total' = total + 1
    /\ UNCHANGED <<mode, number, pc, output>>
    /\ UNCHANGED <<filtered, source, probe, lightVars>>

\* Mutant: a line the source filters out is counted all the same.
LineFilteredOutCounted(maxFiltered) ==
    /\ pc \in {"fill", "steady"}
    /\ filtered < maxFiltered
    /\ filtered' = filtered + 1
    /\ total' = total + 1
    /\ UNCHANGED <<mode, number, pc, seen, buffer, top_scores, top_results, clock,
                   past, snapshots, reads, peak, dropped, ncompact, last, output>>
    /\ UNCHANGED <<source, probe, lightVars>>

\* The filter_map over the source yields nothing for a line: the line did not
\* decode (lines_iter.ok() is None) or the scorer returned None. The collectors
\* never see it.
LineFilteredOut(maxFiltered) ==
    /\ pc \in {"fill", "steady"}
    /\ filtered < maxFiltered
    /\ filtered' = filtered + 1
    /\ UNCHANGED <<mode, number, pc, seen, buffer, top_scores, top_results, total, clock,
                   past, snapshots, reads, peak, dropped, ncompact, last, output>>
    /\ UNCHANGED <<source, probe, lightVars>>

\* A line of the source is not valid UTF-8. The lines() of standard input and of
\* a subprocess give an Err for that line, which .ok() turns into None: the
\* line is left out. read_to_string of a file fails as a whole, before the
\* first line is scored, and the ? returns the error from
\* dyn_fuzzy_filter_and_rank. The Strings of a list are decoded already.
DecodeFailure(maxFiltered) ==
    /\ pc \in {"fill", "steady"}
    /\ filtered < maxFiltered
    /\ source # "List"
    /\ source = "File" => Len(seen) = 0 /\ filtered = 0
    /\ pc' = IF source = "File" THEN "aborted" ELSE pc
    /\ filtered' = filtered + 1
    /\ last' = "undecodable"
    /\ UNCHANGED <<mode, number, seen, buffer, top_scores, top_results, total, clock,
                   past, snapshots, reads, peak, dropped, ncompact, output>>
    /\ UNCHANGED <<source, probe, lightVars>>

\* select_top_items_to_show returns Ok(total): the stream ended before the
\* queues were full, and the collector returns the buffer as it is.
SelectTopItemsExhausted ==
    /\ pc = "fill"
    /\ pc' = "returned"
    /\ UNCHANGED <<mode, number, seen, buffer, top_scores, top_results, total, clock,
                   past, snapshots, reads, peak, dropped, ncompact, last, output>>
    /\ UNCHANGED <<filtered, source, probe, lightVars>>

\* The for_each of dyn_collect_all or dyn_collect_number ends: the collector returns.
CollectorReturns ==
    /\ pc = "steady"
    /\ pc' = "returned"
    /\ UNCHANGED <<mode, number, seen, buffer, top_scores, top_results, total, clock,
                   past, snapshots, reads, peak, dropped, ncompact, last, output>>
    /\ UNCHANGED <<filtered, source, probe, lightVars>>

\* dyn_fuzzy_filter_and_rank, number given: filtered.into_iter().take(number)
\* goes to process_top_items and into the final message.
RespondNumber ==
    /\ pc = "returned"
    /\ mode = "number"
    /\ output' = Take(buffer, number)
    /\ pc' = "done"
    /\ UNCHANGED <<mode, number, seen, buffer, top_scores, top_results, total, clock,
                   past, snapshots, reads, peak, dropped, ncompact, last>>
    /\ UNCHANGED <<filtered, source, probe, lightVars>>

\* dyn_fuzzy_filter_and_rank, no number: sort the whole buffer and print every line.
RespondAll ==
    /\ pc = "returned"
    /\ mode = "all"
    /\ \E ranked \in par_sort_unstable_by(buffer) :
          /\ buffer' = ranked
          /\ output' = ranked
    /\ pc' = "done"
    /\ UNCHANGED <<mode, number, seen, top_scores, top_results, total, clock,
                   past, snapshots, reads, peak, dropped, ncompact, last>>
    /\ UNCHANGED <<filtered, source, probe, lightVars>>

Next ==
    \/ \E score \in Scores, delay \in MainDelays :
          \/ SelectTopItemsStep(score, delay, MaxStreamAll, MaxStreamNumber)
          \/ DynCollectAllStep(score, delay, MaxStreamAll, MaxStreamNumber)
          \/ DynCollectNumberStep(score, delay, MaxStreamAll, MaxStreamNumber)
    \/ SelectTopItemsExhausted
    \/ CollectorReturns
    \/ RespondNumber
    \/ RespondAll

\* Short streams of every shape through both collectors and the final ranking.
Spec == Init /\ [][Next]_vars

InitAll == InitWith({})

NextAll ==
    \/ \E score \in Scores, delay \in MainDelays :
          \/ SelectTopItemsStep(score, delay, MaxStreamAll, MaxStreamNumber)
          \/ DynCollectAllStep(score, delay, MaxStreamAll, MaxStreamNumber)
    \/ SelectTopItemsExhausted
    \/ CollectorReturns
    \/ RespondAll

\* Collect-all mode alone. The collector runs on one thread and takes the next
\* candidate as soon as the source yields it, and a finite source ends: a step
\* that can be taken is taken.
FairSpecAll == InitAll /\ [][NextAll]_vars /\ WF_vars(NextAll)

InitNotify == InitWith(NotifyNumbers)

NextNotify ==
    \/ \E score \in NotifyScores(Len(seen) + 1), delay \in NotifyDelays :
          \/ SelectTopItemsStep(score, delay, MaxStreamNotify, MaxStreamNotify)
          \/ DynCollectAllStep(score, delay, MaxStreamNotify, MaxStreamNotify)
          \/ DynCollectNumberStep(score, delay, MaxStreamNotify, MaxStreamNotify)
    \/ LineFilteredOut(MaxFiltered)
    \/ SelectTopItemsExhausted
    \/ CollectorReturns
    \/ RespondNumber

\* Long streams through both collectors, with lines the source filters out and
\* the clock advancing by every delay between two readings; of the final step,
\* the message of a request for number lines.
SpecNotify == InitNotify /\ [][NextNotify]_vars

\* The longest stream of accepted candidates in the specification of the sources.
MaxStreamSource == 3

InitSource == FilterInitFrom(Numbers, SourceKinds) /\ ProbeIdle /\ LightIdle

NextSource ==
    \/ \E score \in Scores, delay \in MainDelays :
          \/ SelectTopItemsStep(score, delay, MaxStreamSource, MaxStreamSource)
          \/ DynCollectAllStep(score, delay, MaxStreamSource, MaxStreamSource)
          \/ DynCollectNumberStep(score, delay, MaxStreamSource, MaxStreamSource)
    \/ LineFilteredOut(MaxFiltered)
    \/ DecodeFailure(MaxFiltered)
    \/ SelectTopItemsExhausted
    \/ CollectorReturns
    \/ RespondNumber
    \/ RespondAll

\* dyn_fuzzy_filter_and_rank over every kind of source, with lines that do not
\* decode and lines the scorer rejects, up to the final message.
SpecSource == InitSource /\ [][NextSource]_vars

\* The entries of a score array handed to find_best_score_idx: the sentinel of
\* an empty slot, and scores.
ProbeEntries == {I64_MIN} \cup 0..3

\* The new scores handed to find_best_score_idx.
ProbeScores == 0..4

\* The score arrays the callers hand over: top_scores, kept descending.
ProbeArrays ==
    {a \in [0..MAX_IDX -> ProbeEntries] : \A i \in 0..MAX_IDX : \A j \in 0..MAX_IDX :
                                              i < j => a[i] >= a[j]}

\* A call of find_best_score_idx is about to be made, with any array and score.
InitFind ==
    /\ FilterInit({})
    /\ LightIdle
    /\ probe \in {[scores |-> a, score |-> s, result |-> None, called |-> FALSE] :
                      a \in ProbeArrays, s \in ProbeScores}

\* The call of find_best_score_idx.
FindBestScoreIdx ==
    /\ ~probe.called
    /\ probe' = [probe EXCEPT !.result = find_best_score_idx(probe.scores, probe.score),
                              !.called = TRUE]
    /\ UNCHANGED <<filterVars, lightVars>>

NextFind == FindBestScoreIdx

\* find_best_score_idx on its own, over descending arrays and scores.
SpecFind == InitFind /\ [][NextFind]_vars

----------------------------------------------------------------------------
(* What the claims are stated against. *)

\* The accepted candidates as they arrived: the n-th carries text n.
Arrivals == [i \in 1..Len(seen) |-> <<i, seen[i]>>]

\* s without its i-th element.
Without(s, i) == SubSeq(s, 1, i - 1) \o SubSeq(s, i + 1, Len(s))

\* The integers of s in descending order.
RECURSIVE SortDesc(_)
SortDesc(s) ==
    IF Len(s) = 0 THEN <<>>
    ELSE LET m == Max(Range(s))
             i == CHOOSE k \in 1..Len(s) : s[k] = m
         IN  <<m>> \o SortDesc(Without(s, i))

\* The items of s in descending score order, equal scores in the order of s.
RECURSIVE StableRanking(_)
StableRanking(s) ==
    IF Len(s) = 0 THEN <<>>
    ELSE LET m == Max(Range(ScoresOf(s)))
             i == CHOOSE k \in 1..Len(s) :
                     /\ ScoreOf(s[k]) = m
                     /\ \A j \in 1..(k - 1) : ScoreOf(s[j]) # m
         IN  <<s[i]>> \o StableRanking(Without(s, i))

Descending(s) == \A i \in 1..(Len(s) - 1) : s[i] >= s[i + 1]

\* The slots of the top queues that hold a candidate.
Filled == Min2(total, ITEMS_TO_SHOW)

FilledScores == [i \in 1..Filled |-> top_scores[i - 1]]

\* A collector is running or has just returned: the top queues are alive.
InCollector == pc \in {"fill", "steady", "returned"}

\* max(K, number): how many candidates a compaction keeps.
Kept == Max2(ITEMS_TO_SHOW, number)

----------------------------------------------------------------------------
(* C1: after every step of the selector (fill, steady state, compaction)    *)
(* top_scores is in descending order and has exactly ITEMS_TO_SHOW slots,   *)
(* so at most that many entries.                                            *)
C1_TopScoresSorted ==
    /\ DOMAIN top_scores = 0..MAX_IDX
    /\ \A i \in 0..(MAX_IDX - 1) : top_scores[i] >= top_scores[i + 1]

\* A steady-state insertion into queues that a compaction has rebuilt.
C1_Witness ==
    /\ mode = "number"
    /\ ncompact >= 1
    /\ last = "insert"
    /\ dropped = {}

(* C2: while a collector runs, and when it returns, every filled slot of    *)
(* top_results is an index inside the buffer, and the candidate there has   *)
(* the score of the same slot of top_scores.                                *)
C2_TopResultsReferToScores ==
    InCollector =>
        \A i \in 0..(Filled - 1) :
            /\ top_results[i] >= 0
            /\ top_results[i] < Len(buffer)
            /\ ScoreOf(buffer[top_results[i] + 1]) = top_scores[i]

\* Right after a compaction has sorted and truncated the buffer.
C2_Witness ==
    /\ mode = "number"
    /\ pc = "steady"
    /\ dropped # {}
    /\ Len(buffer) = Kept

(* C3: after n accepted candidates the filled part of top_scores is the     *)
(* min(n, K) highest scores seen so far, in descending order.               *)
C3_TopScoresAreTheBest ==
    InCollector => FilledScores = Take(SortDesc(seen), Filled)

\* A candidate has just been kept out of full queues, after one was shifted in.
C3_Witness ==
    /\ mode = "all"
    /\ pc = "steady"
    /\ last = "discard"
    /\ total >= ITEMS_TO_SHOW + 2
    /\ FilledScores # Take(seen, Filled)

(* C4: when dyn_collect_number returns, the top queues name, slot by slot,  *)
(* candidates with the scores of the top K of the whole accepted input      *)
(* sorted once in descending order.                                         *)
C4_FinalTopKIsTrueTopK ==
    (mode = "number" /\ pc = "returned") =>
        /\ FilledScores = Take(SortDesc(seen), ITEMS_TO_SHOW)
        /\ \A i \in 0..(Filled - 1) :
              ScoreOf(buffer[top_results[i] + 1]) = SortDesc(seen)[i + 1]

\* Returned after two compactions, with a top K that is not the first K arrivals.
C4_Witness ==
    /\ mode = "number"
    /\ pc = "returned"
    /\ ncompact >= 2
    /\ FilledScores # Take(seen, ITEMS_TO_SHOW)

(* C5: the lines of the final message of a request for number lines are the *)
(* number best-scoring accepted candidates of the stream, best first.       *)
C5_FirstNumberAreTheBest ==
    (mode = "number" /\ pc = "done") =>
        ScoresOf(output) = Take(SortDesc(seen), number)

(* C6: in dyn_collect_number the buffer never holds more than               *)
(* 2 * max(K, number) candidates, and after each processed candidate it     *)
(* holds fewer.                                                             *)
C6_BufferBelowCapacity ==
    mode = "number" =>
        /\ peak <= Capacity
        /\ Len(buffer) < Capacity

\* The buffer reached its capacity in the last step and was compacted.
C6_Witness ==
    /\ mode = "number"
    /\ peak = Capacity
    /\ ncompact >= 2

(* C7: in dyn_collect_number the buffer holds the max(K, number) best       *)
(* accepted candidates seen so far (all of them while fewer were seen), and *)
(* a compaction drops no candidate that scores more than one it keeps.      *)
C7_BufferKeepsTheBest ==
    (mode = "number" /\ InCollector) =>
        /\ Take(SortDesc(ScoresOf(buffer)), Kept) = Take(SortDesc(seen), Kept)
        /\ \A d \in dropped : \A k \in Range(buffer) : ScoreOf(d) <= ScoreOf(k)

\* A second compaction that dropped a candidate scoring more than the worst seen.
C7_Witness ==
    /\ mode = "number"
    /\ ncompact >= 2
    /\ dropped # {}
    /\ \E d \in dropped : \E j \in 1..Len(seen) : seen[j] < ScoreOf(d)

(* C8: dyn_collect_all returns, and its buffer holds every accepted         *)
(* candidate once, in arrival order; so it does at every step on the way.   *)
C8_CollectAllKeepsEveryCandidate ==
    /\ []((mode = "all" /\ InCollector) => buffer = Arrivals)
    /\ <>(pc \in {"returned", "done"})

\* dyn_collect_all returned after a candidate that the full queues kept out.
C8_Witness ==
    /\ mode = "all"
    /\ pc = "returned"
    /\ last = "discard"
    /\ Len(seen) > ITEMS_TO_SHOW

(* C9, as claimed: the records of collect-all mode are all accepted         *)
(* candidates in descending score order, equal scores in arrival order.     *)
C9_TiesInArrivalOrder ==
    (mode = "all" /\ pc = "done") => output = StableRanking(Arrivals)

(* C9, amended: the records of collect-all mode are all accepted candidates,*)
(* each once, in descending score order; the order of candidates with equal *)
(* scores is whatever the unstable sort leaves.                             *)
C9_RankedDescending ==
    (mode = "all" /\ pc = "done") =>
        /\ Len(output) = Len(seen)
        /\ Range(output) = Range(Arrivals)
        /\ Descending(ScoresOf(output))

\* A ranking of more than K candidates with different scores and with a tie.
C9_Witness ==
    /\ mode = "all"
    /\ pc = "done"
    /\ Len(output) > ITEMS_TO_SHOW
    /\ \E i, j \in 1..Len(output) :
          i < j /\ ScoreOf(output[i]) = ScoreOf(output[j])
    /\ ScoreOf(output[1]) > ScoreOf(output[Len(output)])

(* C10: every progress message carries a total that is a multiple of 16,    *)
(* and try_notify_top_results has read the clock once for each multiple of  *)
(* 16 the total has passed in the steady state, and never otherwise.        *)
C10_SampledTotalsOnly ==
    /\ \A i \in 1..Len(snapshots) : snapshots[i].total % 16 = 0
    /\ reads = Cardinality({t \in (ITEMS_TO_SHOW + 1)..total : t % 16 = 0})

\* dyn_collect_number sent a message at a sampled total, read the clock at
\* another without sending, and has processed a candidate since.
C10_Witness ==
    /\ mode = "number"
    /\ pc = "steady"
    /\ ncompact >= 1
    /\ Len(snapshots) = 1
    /\ reads = 2
    /\ total % 16 = 1

\* The last snapshot of a sequence of snapshots.
LastSnapshot(snaps) == snaps[Len(snaps)]

C12_SnapshotsAreFullAndLate ==
    /\ (pc = "fill" \/ Len(seen) < ITEMS_TO_SHOW) => snapshots = <<>>
    /\ \A i \in 1..Len(snapshots) :
          /\ Len(snapshots[i].lines) = ITEMS_TO_SHOW
          /\ snapshots[i].total >= ITEMS_TO_SHOW
          /\ \A k \in 1..Len(snapshots[i].lines) :
                 snapshots[i].lines[k][1] \in 1..snapshots[i].total

\* A snapshot was emitted, with its ITEMS_TO_SHOW lines.
C12_Witness ==
    /\ snapshots # <<>>
    /\ DOMAIN snapshots[1].lines = 1..ITEMS_TO_SHOW
    /\ pc = "steady"

\* C13: total is the number of accepted candidates processed so far, in every
\* state and so in the final message of a request for number lines; the total
\* of a snapshot is that number at the time it is emitted; lines the source
\* filters out are neither counted nor stored; compaction leaves total alone.
C13_TotalCountsAcceptedOnly ==
    /\ [](/\ total = Len(seen)
          /\ Len(buffer) <= Len(seen)
          /\ \A i \in 1..Len(buffer) : buffer[i][1] \in 1..Len(seen))
    /\ [][/\ snapshots' # snapshots => LastSnapshot(snapshots').total = Len(seen')
          /\ filtered' # filtered =>
                 total' = total /\ buffer' = buffer /\ seen' = seen
          /\ ncompact' # ncompact => total' = total + 1]_vars

\* A request for number lines answered after a snapshot, a compaction and a
\* line that was filtered out.
C13_Witness ==
    /\ mode = "number"
    /\ pc = "done"
    /\ filtered >= 1
    /\ ncompact >= 1
    /\ snapshots # <<>>
    /\ Len(buffer) < total

\* C20: find_best_score_idx returns None exactly when the new score is greater
\* than or equal to every entry of the array (so also when every entry is the
\* sentinel), and otherwise the highest index whose entry is strictly greater
\* than the new score.
C20_FindBestScoreIdx ==
    probe.called =>
        LET a == probe.scores
            s == probe.score
            r == probe.result
        IN  /\ (r = None) <=> (\A i \in DOMAIN a : s >= a[i])
            /\ (\A i \in DOMAIN a : a[i] = I64_MIN) => r = None
            /\ r # None =>
                   /\ r \in DOMAIN a
                   /\ a[r] > s
                   /\ \A j \in DOMAIN a : j > r => a[j] <= s

\* A call that returned an index short of the last one, over an equal entry.
C20_Witness ==
    /\ probe.called
    /\ probe.result = 0
    /\ probe.scores[0] > probe.score
    /\ probe.scores[MAX_IDX] = probe.score

\* ------------------------------------------------------------------------
\* The light command layer: try_cache_or_execute and execute.
\* ------------------------------------------------------------------------

\* The invocations, each its own process, all with the same args and cmd_dir
\* and so the same cache directory.
Procs == {1, 2}

\* The longest stdout a command returns, in bytes.
MaxBytes == 2

\* The bytes of a stdout: a letter and the newline; "ff" is a byte that is not
\* UTF-8.
Bytes == {"a", "nl"}

BoundedSeq(S, n) == UNION {[1..k -> S] : k \in 0..n}

\* The stdouts of a command: every short sequence of bytes, and one that is not
\* UTF-8.
Stdouts == BoundedSeq(Bytes, MaxBytes) \cup {<<"ff", "a">>}

\* The stdouts of a command that writes to its stderr: nothing, or a line.
StdoutsWithStderr == {<<>>, <<"a", "nl">>}

\* The seconds since the epoch that tempfile() reads.
Timestamps == {9, 10}

\* The options of LightCommand::new: number (<<>> is None), output_threshold,
\* and whether an output path is given. Icons are off.
Configs == [number : {<<>>, <<1>>}, output_threshold : {0, 1}, output : BOOLEAN]

\* What Command::output gives: an error of the spawn, or the exit status and
\* the two captured streams.
CommandResults ==
    {[spawned |-> FALSE, success |-> FALSE, stderr |-> <<>>, stdout |-> <<>>]}
    \cup [spawned : {TRUE}, success : BOOLEAN, stderr : {<<>>}, stdout : Stdouts]
    \cup [spawned : {TRUE}, success : BOOLEAN, stderr : {<<"e">>},
          stdout : StdoutsWithStderr]

Digits == <<"0", "1", "2", "3", "4", "5", "6", "7", "8", "9">>

\* format!("{}", n) of an unsigned number.
RECURSIVE Format(_)
Format(n) ==
    IF n < 10 THEN <<Digits[n + 1]>>
    ELSE Format(n \div 10) \o <<Digits[(n % 10) + 1]>>

IsDigit(c) == \E d \in 1..10 : Digits[d] = c

DigitValue(c) == (CHOOSE d \in 1..10 : Digits[d] = c) - 1

RECURSIVE DigitsValue(_)
DigitsValue(s) ==
    IF s = <<>> THEN 0
    ELSE DigitsValue(SubSeq(s, 1, Len(s) - 1)) * 10 + DigitValue(s[Len(s)])

\* The Err of str::parse::<u64>.
ParseError == -1

\* str::parse::<u64>: an optional plus sign, then one digit or more. The names
\* here are too short to overflow a u64.
ParseU64(s) ==
    LET body == IF s # <<>> /\ s[1] = "+" THEN Tail(s) ELSE s
    IN  IF body # <<>> /\ \A i \in 1..Len(body) : IsDigit(body[i])
        THEN DigitsValue(body)
        ELSE ParseError

\* str::split(sep).collect(): the pieces between the separators.
RECURSIVE Split(_, _)
Split(s, sep) ==
    IF \A i \in 1..Len(s) : s[i] # sep THEN <<s>>
    ELSE LET k == CHOOSE i \in 1..Len(s) : s[i] = sep /\ \A j \in 1..(i - 1) : s[j] # sep
         IN  <<SubSeq(s, 1, k - 1)>> \o Split(SubSeq(s, k + 1, Len(s)), sep)

\* OsStr::to_str is Some: the name is valid UTF-8.
IsUtf8(name) == \A i \in 1..Len(name) : name[i] # "ff"

\* String::from_utf8_lossy: a byte that is not UTF-8 becomes U+FFFD.
from_utf8_lossy(bytes) ==
    [i \in 1..Len(bytes) |-> IF bytes[i] = "ff" THEN "ufffd" ELSE bytes[i]]

\* str::len: the length in bytes, U+FFFD taking three.
RECURSIVE StrLen(_)
StrLen(str) ==
    IF str = <<>> THEN 0
    ELSE (IF str[1] = "ufffd" THEN 3 ELSE 1) + StrLen(Tail(str))

\* trim_trailing: the last line goes if it is empty or four bytes long.
trim_trailing(lines) ==
    IF lines # <<>> /\ (lines[Len(lines)] = <<>> \/ StrLen(lines[Len(lines)]) = 4)
    THEN SubSeq(lines, 1, Len(lines) - 1)
    ELSE lines

\* try_prepend_icon with enable_icon and grep_enable_icon false.
try_prepend_icon(top_n) == trim_trailing(top_n)

\* bytecount::count(cmd_stdout, b'\n')
CountNewlines(bytes) == Cardinality({i \in 1..Len(bytes) : bytes[i] = "nl"})

\* String::from_utf8_lossy(stdout).split('\n')
Lines(stdout) == Split(from_utf8_lossy(stdout), "nl")

\* Mutant: the name of an entry with another separator.
EntryNameDashed(secs, count) == Format(secs) \o <<"-">> \o Format(count)

\* tempfile: format!("{}_{}", secs, self.total)
EntryName(secs, count) == Format(secs) \o <<"_">> \o Format(count)

CachePath(name) == [dir |-> "cache_dir", name |-> name]

\* tempfile: the path of the output option.
OutputPath == [dir |-> "output", name |-> <<>>]

\* The names of a file found in the cache directory at the start: a well-formed
\* one, and names of other shapes.
InitialNames ==
    {<<"9", "_", "1">>,
     <<"x">>,
     <<"9", "_", "x">>,
     <<"9", "_">>,
     <<"9", "_", "+", "1">>,
     <<"x", "_", "1">>,
     <<"9", "_", "1", "_", "1">>,
     <<"ff", "_", "1">>}

\* The content of such a file: one line.
InitialContent == <<"a", "nl">>

\* println_json!: one message.
Message(p, kind, count, lines, tempfile, error) ==
    [p |-> p, kind |-> kind, total |-> count, lines |-> lines,
     tempfile |-> tempfile, error |-> error]

\* The invocations between their cache check and their end.
Running == {"execute", "tempfile", "write"}

InitLight ==
    /\ FilterInit({})
    /\ ProbeIdle
    /\ config \in Configs
    /\ \/ cache_dir_exists = FALSE /\ cache_entries = {}
       \/ cache_dir_exists = TRUE /\ cache_entries = {}
       \/ /\ cache_dir_exists = TRUE
          /\ \E n \in InitialNames :
                cache_entries = {[name |-> n, content |-> InitialContent, by |-> 0]}
    /\ output_file = <<>>
    /\ lpc = [p \in Procs |-> "idle"]
    /\ ltotal = [p \in Procs |-> 0]
    /\ lcmd = [p \in Procs |-> <<>>]
    /\ ltempfile = [p \in Procs |-> <<>>]
    /\ messages = <<>>
    /\ started = <<>>
    /\ overlapped = FALSE

\* Mutant: the count read from the first part of the name.
HitTotalOfTimestamp(info) == ParseU64(info[1])

\* try_cache_or_execute: info[1].parse::<u64>()
HitTotal(info) == ParseU64(info[2])

\* try_cache_or_execute, what it makes of the name of the first entry: a hit
\* with the total, a miss, or the panic of unwrap() on a parse error.
CacheLookup(name) ==
    IF ~IsUtf8(name) THEN [kind |-> "miss", total |-> 0]
    ELSE LET info == Split(name, "_")
         IN  IF Len(info) # 2 THEN [kind |-> "miss", total |-> 0]
             ELSE IF HitTotal(info) = ParseError THEN [kind |-> "panic", total |-> 0]
             ELSE [kind |-> "hit", total |-> HitTotal(info)]

\* try_cache_or_execute up to its call of execute. The directory is readable;
\* read_dir gives the entries in no particular order.
TryCacheOrExecute(p) ==
    /\ lpc[p] = "idle"
    /\ started' = Append(started, p)
    /\ overlapped' = (overlapped \/ \E q \in Procs : lpc[q] \in Running)
    /\ \/ /\ cache_dir_exists
          /\ \E first_entry \in cache_entries :
                LET found == CacheLookup(first_entry.name)
                IN  /\ lpc' = [lpc EXCEPT ![p] =
                                  CASE found.kind = "hit" -> "done"
                                    [] found.kind = "panic" -> "panicked"
                                    [] OTHER -> "execute"]
                    /\ messages' =
                          IF found.kind = "hit"
                          THEN Append(messages,
                                      Message(p, "hit", found.total, <<>>,
                                              <<CachePath(first_entry.name)>>, <<>>))
                          ELSE messages
       \/ /\ ~cache_dir_exists \/ cache_entries = {}
          /\ lpc' = [lpc EXCEPT ![p] = "execute"]
          /\ UNCHANGED messages
    /\ UNCHANGED <<cache_dir_exists, cache_entries, output_file, config, ltotal, lcmd,
                   ltempfile>>
    /\ UNCHANGED <<filterVars, probe>>

\* Mutant: every non-zero exit taken for a failure.
CommandFailedOnStatus(result) == ~result.success

\* output: !status.success() && !stderr.is_empty()
CommandFailed(result) == ~result.success /\ result.stderr # <<>>

\* Mutant: spilling at the threshold already.
ShouldSpillAtThreshold(count, threshold) == count >= threshold

\* try_cache: self.total > self.output_threshold
ShouldSpill(count, threshold) == count > threshold

\* execute from output() to the decision of try_cache: the command runs; its
\* failure is reported and the process exits; with a number the first lines are
\* printed; an output at or below the threshold is printed whole.
Output(p) ==
    /\ lpc[p] = "execute"
    /\ \E result \in CommandResults :
          /\ lcmd' = [lcmd EXCEPT ![p] = result]
          /\ IF ~result.spawned
             THEN /\ lpc' = [lpc EXCEPT ![p] = "failed"]
                  /\ UNCHANGED <<messages, ltotal>>
             ELSE IF CommandFailed(result)
             THEN /\ messages' = Append(messages,
                                        Message(p, "error", 0, <<>>, <<>>, result.stderr))
                  /\ lpc' = [lpc EXCEPT ![p] = "exited"]
                  /\ UNCHANGED ltotal
             ELSE LET count == CountNewlines(result.stdout)
                  IN  /\ ltotal' = [ltotal EXCEPT ![p] = count]
                      /\ IF config.number # <<>>
                         THEN /\ messages' =
                                    Append(messages,
                                           Message(p, "result", count,
                                                   try_prepend_icon(
                                                       Take(Lines(result.stdout),
                                                            config.number[1])),
                                                   <<>>, <<>>))
                              /\ lpc' = [lpc EXCEPT ![p] = "done"]
                         ELSE IF ShouldSpill(count, config.output_threshold)
                         THEN /\ lpc' = [lpc EXCEPT ![p] = "tempfile"]
                              /\ UNCHANGED messages
                         ELSE /\ messages' =
                                    Append(messages,
                                           Message(p, "result", count,
                                                   try_prepend_icon(Lines(result.stdout)),
                                                   <<>>, <<>>))
                              /\ lpc' = [lpc EXCEPT ![p] = "done"]
    /\ UNCHANGED <<cache_dir_exists, cache_entries, output_file, config, ltempfile,
                   started, overlapped>>
    /\ UNCHANGED <<filterVars, probe>>

\* tempfile() and File::create(&tempfile): the path is the output option's, or
\* a new name in the cache directory, which is created if it is missing; the
\* file is created, or emptied if it is there. Either creation may fail.
Tempfile(p) ==
    /\ lpc[p] = "tempfile"
    /\ IF config.output
       THEN /\ ltempfile' = [ltempfile EXCEPT ![p] = <<OutputPath>>]
            /\ \/ /\ output_file' = << <<>> >>
                  /\ lpc' = [lpc EXCEPT ![p] = "write"]
               \/ /\ lpc' = [lpc EXCEPT ![p] = "failed"]
                  /\ UNCHANGED output_file
            /\ UNCHANGED <<cache_dir_exists, cache_entries>>
       ELSE /\ \/ /\ ~cache_dir_exists
                  /\ lpc' = [lpc EXCEPT ![p] = "failed"]
                  /\ UNCHANGED <<cache_dir_exists, cache_entries, ltempfile>>
               \/ \E secs \in Timestamps :
                     LET name == EntryName(secs, ltotal[p])
                     IN  /\ cache_dir_exists' = TRUE
                         /\ ltempfile' = [ltempfile EXCEPT ![p] = <<CachePath(name)>>]
                         /\ \/ /\ cache_entries' =
                                     {e \in cache_entries : e.name # name}
                                     \cup {[name |-> name, content |-> <<>>, by |-> p]}
                               /\ lpc' = [lpc EXCEPT ![p] = "write"]
                            \/ /\ lpc' = [lpc EXCEPT ![p] = "failed"]
                               /\ UNCHANGED cache_entries
            /\ UNCHANGED output_file
    /\ UNCHANGED <<config, ltotal, lcmd, messages, started, overlapped>>
    /\ UNCHANGED <<filterVars, probe>>

\* A write of bytes at the start of a file.
Overwrite(content, bytes) == bytes \o SubSeq(content, Len(bytes) + 1, Len(content))

\* write_all(cmd_stdout) and the message of execute: all of the stdout is
\* written and the message follows, or the write fails after a part of it.
WriteAll(p) ==
    /\ lpc[p] = "write"
    /\ \E n \in 0..Len(lcmd[p].stdout) :
          LET written == SubSeq(lcmd[p].stdout, 1, n)
              path    == ltempfile[p][1]
          IN  /\ IF path = OutputPath
                 THEN /\ output_file' = <<Overwrite(output_file[1], written)>>
                      /\ UNCHANGED cache_entries
                 ELSE /\ cache_entries' =
                            {IF e.name = path.name
                             THEN [e EXCEPT !.content = Overwrite(e.content, written)]
                             ELSE e : e \in cache_entries}
                      /\ UNCHANGED output_file
              /\ IF n = Len(lcmd[p].stdout)
                 THEN /\ messages' =
                            Append(messages,
                                   Message(p, "result", ltotal[p],
                                           try_prepend_icon(Lines(lcmd[p].stdout)),
                                           <<path>>, <<>>))
                      /\ lpc' = [lpc EXCEPT ![p] = "done"]
                 ELSE /\ lpc' = [lpc EXCEPT ![p] = "failed"]
                      /\ UNCHANGED messages
    /\ UNCHANGED <<cache_dir_exists, config, ltotal, lcmd, ltempfile, started, overlapped>>
    /\ UNCHANGED <<filterVars, probe>>

NextLight ==
    \E p \in Procs :
        \/ TryCacheOrExecute(p)
        \/ Output(p)
        \/ Tempfile(p)
        \/ WriteAll(p)

\* Two invocations with the same key, in any interleaving of their steps, over
\* every option, initial cache directory and command result.
SpecLight == InitLight /\ [][NextLight]_vars

\* ------------------------------------------------------------------------
\* Claims about the light command layer.
\* ------------------------------------------------------------------------

\* A decimal numeral.
IsNumeral(str) == str # <<>> /\ \A i \in 1..Len(str) : IsDigit(str[i])

\* The places of the underscore that make a name a {timestamp}_{count}.
WellFormedAt(name) ==
    {k \in 1..Len(name) : /\ name[k] = "_"
                          /\ IsNumeral(SubSeq(name, 1, k - 1))
                          /\ IsNumeral(SubSeq(name, k + 1, Len(name)))}

WellFormed(name) == WellFormedAt(name) # {}

\* The count a well-formed name carries.
CountOf(name) ==
    LET k == CHOOSE k \in WellFormedAt(name) : TRUE
    IN  DigitsValue(SubSeq(name, k + 1, Len(name)))

\* An invocation that is over: it returned Ok, returned Err, called exit(1) or
\* panicked.
Terminal == {"done", "failed", "exited", "panicked"}

MessagesOf(p) == {i \in 1..Len(messages) : messages[i].p = p}

\* The invocation ran the command.
Executed(p) == lcmd[p] # <<>>

\* The files of the layer.
files == <<cache_dir_exists, cache_entries, output_file>>

\* The invocation makes its cache check in this step.
Checks(p) == lpc[p] = "idle" /\ lpc'[p] # "idle"

\* C14: when try_cache_or_execute finds the cache directory with a single
\* entry whose name is a well-formed {timestamp}_{count}, it is a hit: the one
\* message carries that count and the entry's path, the command is not run and
\* no file or directory changes.
C14_SingleWellFormedEntryHits ==
    [][\A p \in Procs :
          (/\ Checks(p)
           /\ cache_dir_exists
           /\ \E e \in cache_entries : cache_entries = {e} /\ WellFormed(e.name))
          => LET e == CHOOSE e \in cache_entries : TRUE
             IN  /\ lpc'[p] = "done"
                 /\ messages' = Append(messages,
                                       Message(p, "hit", CountOf(e.name), <<>>,
                                               <<CachePath(e.name)>>, <<>>))
                 /\ ~Executed(p)'
                 /\ files' = files]_vars

\* An invocation hit the entry 9_1 that was there at the start.
C14_Witness ==
    /\ cache_entries = {[name |-> <<"9", "_", "1">>, content |-> InitialContent, by |-> 0]}
    /\ \E i \in 1..Len(messages) :
          /\ messages[i].kind = "hit"
          /\ messages[i].total = 1
          /\ ~Executed(messages[i].p)
          /\ lpc[messages[i].p] = "done"

\* Two invocations, one after the end of the other, are over; the cache
\* directory was missing or empty at the start; the first ran the command.
TwoSuccessive ==
    /\ Len(started) = 2
    /\ ~overlapped
    /\ \A p \in Procs : lpc[p] \in Terminal
    /\ \A e \in cache_entries : e.by # 0
    /\ Executed(started[1])

\* The second of two invocations hit the cache and reported the total of the
\* first, and did not run the command.
SecondHits ==
    /\ ~Executed(started[2])
    /\ \E i \in MessagesOf(started[2]) :
          /\ messages[i].kind = "hit"
          /\ messages[i].total = ltotal[started[1]]

\* C15, as stated: of two successive invocations with the same key the first
\* runs the command and creates a cache entry, and the second is a hit that
\* returns the total of the first without running the command. Stated of
\* invocations that both return Ok.
C15_SecondCallHits ==
    (TwoSuccessive /\ \A p \in Procs : lpc[p] = "done") =>
        /\ \E e \in cache_entries : e.by = started[1]
        /\ SecondHits

\* C15, amended: of two successive invocations with the same key the first
\* creates a cache entry only when no number is requested, no output path is
\* given, the command does not fail and its total is above output_threshold,
\* and it does create one when it returns Ok in that case; the second is a hit
\* that returns the total of the first without running the command if the first
\* created an entry, and runs the command again if not.
C15_SecondCallHitsAfterSpill ==
    TwoSuccessive =>
        LET first   == started[1]
            created == \E e \in cache_entries : e.by = first
            spills  == /\ config.number = <<>>
                       /\ ~config.output
                       /\ lcmd[first].spawned
                       /\ ~(~lcmd[first].success /\ lcmd[first].stderr # <<>>)
                       /\ CountNewlines(lcmd[first].stdout) > config.output_threshold
        IN  /\ created => spills /\ SecondHits
            /\ (spills /\ lpc[first] = "done") => created
            /\ ~created => Executed(started[2]) /\ ~SecondHits

\* The second of two successive invocations hit the entry the first created.
C15_Witness ==
    /\ TwoSuccessive
    /\ SecondHits
    /\ lpc[started[1]] = "done"
    /\ \E e \in cache_entries : e.by = started[1] /\ e.content = lcmd[started[1]].stdout

\* C16, as stated: after any interleaving of invocations with the same key,
\* over a cache directory that was missing or empty at the start, the directory
\* holds at most one entry.
C16_AtMostOneEntry ==
    (\A e \in cache_entries : e.by # 0) => Cardinality(cache_entries) <= 1

\* The file at a path.
FileAt(path) ==
    IF path = OutputPath THEN output_file[1]
    ELSE (CHOOSE e \in cache_entries : e.name = path.name).content

\* C17: a response of execute carries a tempfile exactly when no number is
\* requested and the total is strictly above output_threshold, and then the
\* stdout has just been written to that file, byte for byte; otherwise the
\* invocation has computed no path and has written nothing; the total is the
\* number of newlines of the stdout.
C17_SpillExactlyAboveThreshold ==
    /\ [](\A i \in 1..Len(messages) :
             messages[i].kind = "result" =>
                LET m == messages[i]
                    q == m.p
                IN  /\ m.total = CountNewlines(lcmd[q].stdout)
                    /\ (m.tempfile # <<>>) <=>
                          (config.number = <<>> /\ m.total > config.output_threshold)
                    /\ m.tempfile = ltempfile[q]
                    /\ m.tempfile = <<>> => \A e \in cache_entries : e.by # q)
    /\ [][\A q \in Procs :
             (lpc[q] # "done" /\ lpc'[q] = "done" /\ Executed(q)') =>
                IF config.number = <<>> /\ ltotal'[q] > config.output_threshold
                THEN LET content == FileAt(ltempfile[q][1])'
                         stdout  == lcmd[q].stdout
                     IN  /\ SubSeq(content, 1, Len(stdout)) = stdout
                         /\ ~overlapped => content = stdout
                ELSE files' = files]_vars

\* One response with a tempfile and one, for a total at the threshold, without.
C17_Witness ==
    /\ config.number = <<>>
    /\ \E i \in 1..Len(messages) : \E j \in 1..Len(messages) :
          /\ messages[i].kind = "result"
          /\ messages[i].tempfile # <<>>
          /\ FileAt(messages[i].tempfile[1]) = lcmd[messages[i].p].stdout
          /\ messages[j].kind = "result"
          /\ messages[j].tempfile = <<>>
          /\ messages[j].total = config.output_threshold

\* The invocation went on after output() as after a successful command.
ProcessedAsSuccess(p) ==
    /\ lpc[p] \in {"tempfile", "write", "done", "failed"}
    /\ ltotal[p] = CountNewlines(lcmd[p].stdout)
    /\ \A i \in MessagesOf(p) : messages[i].kind = "result" /\ messages[i].total = ltotal[p]
    /\ lpc[p] = "done" <=> MessagesOf(p) # {}

\* C18: when the command exits non-zero with a non-empty stderr, the invocation
\* emits one message, the error with the stderr text, and exits with code 1; it
\* emits no total or lines and writes no file. A non-zero exit with an empty
\* stderr is processed like a success.
C18_FailureReportsStderrOnly ==
    /\ [](\A p \in Procs :
             (Executed(p) /\ lcmd[p].spawned) =>
                IF ~lcmd[p].success /\ lcmd[p].stderr # <<>>
                THEN /\ lpc[p] = "exited"
                     /\ \E i \in MessagesOf(p) :
                           /\ MessagesOf(p) = {i}
                           /\ messages[i] = Message(p, "error", 0, <<>>, <<>>,
                                                    lcmd[p].stderr)
                     /\ ltempfile[p] = <<>>
                     /\ \A e \in cache_entries : e.by # p
                ELSE ProcessedAsSuccess(p))
    /\ [][\A p \in Procs : (lpc[p] # "exited" /\ lpc'[p] = "exited") => files' = files]_vars

\* One invocation exited on a failure, and one went through to its response
\* after a non-zero exit with an empty stderr.
C18_Witness ==
    \E p \in Procs : \E q \in Procs :
        /\ lpc[p] = "exited"
        /\ lpc[q] = "done"
        /\ Executed(q)
        /\ ~lcmd[q].success
        /\ lcmd[q].stdout # <<>>
        /\ MessagesOf(q) # {}

\* A name with no count in any reading: no underscore of it is followed to the
\* end by a number.
NoNumericCount(name) ==
    \A k \in 1..Len(name) :
        name[k] = "_" => ParseU64(SubSeq(name, k + 1, Len(name))) = ParseError

\* C19, as stated: when the cache directory holds one entry whose name is not a
\* {timestamp}_{count} with a numeric count, try_cache_or_execute takes it for a
\* miss and goes on to execute; it does not fail or abort.
C19_MalformedEntryIsMiss ==
    [][\A p \in Procs :
          (/\ Checks(p)
           /\ cache_dir_exists
           /\ \E e \in cache_entries : cache_entries = {e} /\ NoNumericCount(e.name))
          => lpc'[p] = "execute"]_vars

\* ------------------------------------------------------------------------
\* Claims about ties and the steady-state insertion.
\* ------------------------------------------------------------------------

\* A step of a collector takes one candidate in, without a compaction.
TakesCandidate == Len(seen') = Len(seen) + 1 /\ ncompact' = ncompact

\* The candidate such a step takes in.
NewCandidate == <<Len(seen'), seen'[Len(seen')]>>

\* The candidate a slot of the top queues names.
TopItem(results, buf, i) == buf[results[i] + 1]

\* C21, as stated: when the score of a new candidate equals the score of
\* entries of the top queues, after the insertion every such entry is still in
\* the queues and the new candidate, if it is there, is in a later slot.
C21_NewTieRanksAfterOld ==
    [][TakesCandidate =>
          \A i \in 0..(Filled - 1) :
              top_scores[i] = ScoreOf(NewCandidate) =>
                 \E j \in 0..(Filled' - 1) :
                     /\ TopItem(top_results', buffer', j) = TopItem(top_results, buffer, i)
                     /\ \A k \in 0..(Filled' - 1) :
                           TopItem(top_results', buffer', k) = NewCandidate => k > j]_vars

\* A step of the steady state takes one candidate in, without a compaction.
SteadyStep == pc = "steady" /\ TakesCandidate

\* Nothing changes in the top queues, and the candidate is pushed.
DiscardedFromTop ==
    /\ top_scores' = top_scores
    /\ top_results' = top_results
    /\ buffer' = Append(buffer, NewCandidate)

\* The candidate is pushed and put into slot pos of both queues, the entries
\* from pos on move one slot down and the one in slot MAX_IDX leaves.
ShiftInsertedAt(pos) ==
    /\ buffer' = Append(buffer, NewCandidate)
    /\ top_scores'[pos] = ScoreOf(NewCandidate)
    /\ TopItem(top_results', buffer', pos) = NewCandidate
    /\ \A i \in 0..MAX_IDX :
          /\ i < pos => top_scores'[i] = top_scores[i] /\ top_results'[i] = top_results[i]
          /\ i > pos => top_scores'[i] = top_scores[i - 1]
                        /\ top_results'[i] = top_results[i - 1]
    /\ \A i \in 0..MAX_IDX : top_results'[i] # top_results[MAX_IDX]

\* The slot the candidate goes to when find_best_score_idx returned index.
SlotAfter(index) == IF index = None THEN 0 ELSE index + 1

\* C22, as stated: in the steady state a candidate for which
\* find_best_score_idx returns None is kept out of the top queues, which do
\* not change, and is pushed to the buffer; every other candidate is
\* shift-inserted and the entry of slot MAX_IDX leaves.
C22_NoneFoundDiscards ==
    [][SteadyStep =>
          LET found == {i \in 0..MAX_IDX : top_scores[i] > ScoreOf(NewCandidate)}
          IN  IF found = {}
              THEN DiscardedFromTop
              ELSE \E pos \in 0..MAX_IDX : ShiftInsertedAt(pos)]_vars

\* C22, amended: in the steady state a candidate for which find_best_score_idx
\* returns Some(MAX_IDX), every entry scoring strictly more, is kept out of the
\* top queues, which do not change, and is pushed to the buffer; every other
\* candidate, None included, is pushed and shift-inserted, at slot 0 for None
\* and at idx + 1 for Some(idx), and the entry of slot MAX_IDX leaves.
C22_WorstSlotDiscards ==
    [][SteadyStep =>
          LET found == {i \in 0..MAX_IDX : top_scores[i] > ScoreOf(NewCandidate)}
              index == IF found = {} THEN None ELSE Max(found)
          IN  IF index = MAX_IDX
              THEN DiscardedFromTop
              ELSE ShiftInsertedAt(SlotAfter(index))]_vars

\* In the steady state of dyn_collect_all a candidate became the best, None
\* having been returned for it, and the next one was kept out of the queues.
C22_Witness ==
    /\ mode = "all"
    /\ pc = "steady"
    /\ last = "discard"
    /\ total >= ITEMS_TO_SHOW + 2
    /\ top_results[0] = total - 2
    /\ top_scores[0] > top_scores[1]

\* C23, as stated: whatever the kind of source, a line that fails to decode is
\* skipped: the step changes nothing the collectors hold, the invocation goes
\* on where it was, and it never ends on the error.
C23_DecodeFailureIsSkipped ==
    /\ [](pc # "aborted")
    /\ [][(filtered' # filtered /\ last' = "undecodable") =>
             /\ pc' = pc
             /\ <<seen, buffer, top_scores, top_results, total>>'
                   = <<seen, buffer, top_scores, top_results, total>>]_vars

\* ------------------------------------------------------------------------
\* Claims about the spill file and its readers.
\* ------------------------------------------------------------------------

\* C24, as stated: when execute spills the stdout to a tempfile, the lines of
\* the response are a truncated preview: fewer lines than the output has, and
\* not all the lines of the stdout.
C24_SpillPreviewIsTruncated ==
    \A i \in 1..Len(messages) :
        (messages[i].kind = "result" /\ messages[i].tempfile # <<>>) =>
            /\ Len(messages[i].lines) < messages[i].total
            /\ messages[i].lines # try_prepend_icon(Lines(lcmd[messages[i].p].stdout))

\* The invocation ended on an error of create_dir_all, File::create or write_all.
CacheIOFailed(p) ==
    /\ lpc[p] = "failed"
    /\ Executed(p)
    /\ lcmd[p].spawned

\* C25, as stated: an invocation that fails to create the cache directory or to
\* write the spill file returns an error without a message, and leaves no entry
\* of its own in the cache directory that a later cache check would take for a
\* hit.
C25_CacheIOFailureLeavesNoHit ==
    \A p \in Procs :
        CacheIOFailed(p) =>
            /\ MessagesOf(p) = {}
            /\ \A e \in cache_entries :
                  e.by = p => CacheLookup(e.name).kind # "hit"

\* C26, as stated: when an invocation reports a hit, the file it reports holds
\* as many newlines as the total it reports, and, if an invocation created it,
\* the whole stdout of that invocation.
C26_HitSeesCompleteFile ==
    [][\A p \in Procs :
          (Checks(p) /\ lpc'[p] = "done") =>
             LET m == messages'[Len(messages')]
                 e == CHOOSE e \in cache_entries : e.name = m.tempfile[1].name
             IN  /\ CountNewlines(e.content) = m.total
                 /\ e.by # 0 => e.content = lcmd[e.by].stdout]_vars

====
